---- MODULE Spec2Model ----
(***************************************************************************)
(* Model of rust_verify/src/rust_to_vir.rs: crate_to_vir and the routines  *)
(* it drives (module mapping, check_item, check_foreign_item,              *)
(* trait_impl_to_vir, collect_external_trait_impls, ExternalInfo).         *)
(*                                                                         *)
(* DefIds are integers.  A local owner's DefId is its index in             *)
(* ctxt.krate.owners (owner 1 is the crate root); DefIds >= 100 belong to  *)
(* dependency crates.  A method's DefId is the pair <<impl, name>>.        *)
(* A Path is a non-empty sequence of integer segments; Option<Path> is     *)
(* encoded with None = << >>.                                              *)
(***************************************************************************)
EXTENDS Integers, Sequences, FiniteSets, TLC

VARIABLES
    owners,         \* ctxt.krate.owners: the HIR owners of the unit, in index order
    world,          \* what tcx answers about traits, impls and imported krates
    pc,             \* position inside crate_to_vir
    cur,            \* index of the owner the current loop is at
    item_to_module, \* HashMap<ItemId, Option<Path>>
    vir,            \* KrateX under construction
    external_info,  \* ExternalInfo
    erasure_info,   \* ctxt.erasure_info
    hv,             \* locals of collect_external_trait_impls
    result          \* what crate_to_vir returns: Running, Ok or Err

vars == <<owners, world, pc, cur, item_to_module, vir, external_info,
          erasure_info, hv, result>>

-----------------------------------------------------------------------------
(* Bounds of the explored inputs *)

MaxNested == 3

MaxConsts == 3

MaxBindings == 2

(* impl items per impl block *)
MaxImplItems == 2

(* datatypes asked of an ExternalInfo on its own *)
MaxTypeIds == 3

-----------------------------------------------------------------------------
(* Generic helpers *)

NoneP == << >>

Range(s) == {s[k] : k \in 1..Len(s)}

RECURSIVE Flatten(_)
Flatten(ss) == IF ss = << >> THEN << >> ELSE Head(ss) \o Flatten(Tail(ss))

RECURSIVE SetToSeq(_)
SetToSeq(S) ==
    IF S = {} THEN << >>
    ELSE LET m == CHOOSE x \in S : \A y \in S : x <= y
         IN  <<m>> \o SetToSeq(S \ {m})

PopSegment(p) == SubSeq(p, 1, Len(p) - 1)

LastSegment(p) == p[Len(p)]

Running == [kind |-> "Running", msg |-> "", arg |-> 0]
Ok == [kind |-> "Ok", msg |-> "", arg |-> 0]
Err(m) == [kind |-> "Err", msg |-> m, arg |-> 0]
ErrArg(m, a) == [kind |-> "Err", msg |-> m, arg |-> a]
Panicked(m) == [kind |-> "Panic", msg |-> m, arg |-> 0]

-----------------------------------------------------------------------------
(* The HIR owners and the answers of the type-checking oracle *)

DepCrate == 900

LocalCrate == 0

N == Len(owners)

Owner(node, parent, kind, attrs) ==
    [node |-> node, parent |-> parent, kind |-> kind, attrs |-> attrs,
     trait |-> 0, body |-> << >>, target |-> << >>, ext |-> 0, name |-> 0,
     self_ty |-> 0, ok |-> TRUE]

IsLocal(d) == d < 100

RECURSIVE LocalPath(_)
LocalPath(i) ==
    IF i <= 1 THEN <<LocalCrate>> ELSE Append(LocalPath(owners[i].parent), i)

def_id_to_vir_path(d) == IF IsLocal(d) THEN LocalPath(d) ELSE <<DepCrate, d>>

method_path(m) == Append(def_id_to_vir_path(m[1]), m[2])

Children(i) == {c \in 1..N : owners[c].parent = i}

Has(i, a) == a \in owners[i].attrs

(* vattrs.is_external(&ctxt.cmd_line_args): external, or external by default *)
is_external(i) == Has(i, "external") \/ Has(i, "default_external")

-----------------------------------------------------------------------------
(* Module mapping: crate_to_vir, first loop over the owners *)

RECURSIVE walk_item(_)
walk_item(i) ==
    LET cs == SetToSeq(Children(i))
    IN  Flatten([k \in 1..Len(cs) |->
            (IF owners[cs[k]].node = "Item" THEN <<cs[k]>> ELSE << >>)
                \o walk_item(cs[k])])

(* VisitMod::visit_item: the item, then every item nested in it, pre-order *)
visit_item(i) == <<i>> \o walk_item(i)

(* mod_.item_ids: the items declared directly in a module *)
item_ids(i) == {c \in Children(i) : owners[c].node = "Item"}

(* HashMap::extend: an existing key takes the new value *)
extend(m, ids, v) ==
    [j \in (DOMAIN m) \cup ids |-> IF j \in ids THEN v ELSE m[j]]

NoReveals == [set |-> FALSE, funs |-> << >>]

ModuleX(p) == [path |-> p, reveals |-> NoReveals]

external_mod_ids(i) == Range(visit_item(i))

(* mutant: the item itself is not skipped *)
external_item_ids_noskip(i) == Range(visit_item(i))

external_item_ids(i) == Range(Tail(visit_item(i)))

map_owner(i, m) ==
    LET o == owners[i]
    IN  IF o.node = "Item" /\ o.kind = "Mod"
        THEN IF Has(i, "external")
             THEN extend(m, external_mod_ids(i), NoneP)
             ELSE extend(m, item_ids(i), def_id_to_vir_path(i))
        ELSE IF o.node = "Item"
        THEN IF Has(i, "external") \/ Has(i, "external_body")
             THEN extend(m, external_item_ids(i), NoneP)
             ELSE m
        ELSE IF o.node = "Crate"
        THEN extend(m, item_ids(i), def_id_to_vir_path(i))
        ELSE m

registers_module(i) ==
    \/ owners[i].node = "Crate"
    \/ owners[i].node = "Item" /\ owners[i].kind = "Mod" /\ ~Has(i, "external")

MapOwner ==
    /\ pc = "map"
    /\ IF owners[cur].node = "Item" /\ Has(cur, "bad_attrs")
       THEN /\ result' = Err("invalid verifier attribute")
            /\ pc' = "failed"
            /\ UNCHANGED <<cur, item_to_module, vir>>
       ELSE /\ item_to_module' = map_owner(cur, item_to_module)
            /\ vir' = IF registers_module(cur)
                      THEN [vir EXCEPT !.modules =
                                Append(@, ModuleX(def_id_to_vir_path(cur)))]
                      ELSE vir
            /\ IF cur = N
               THEN pc' = "early" /\ cur' = 1
               ELSE pc' = pc /\ cur' = cur + 1
            /\ UNCHANGED result
    /\ UNCHANGED <<owners, world, external_info, erasure_info, hv>>

(* mutant: an error of process_const_early is dropped *)
ProcessConstEarly_DroppingError ==
    /\ pc = "early"
    /\ pc' = "check"
    /\ UNCHANGED <<owners, world, cur, item_to_module, vir, external_info,
                   erasure_info, hv, result>>

(* crate_to_vir, second loop: process_const_early on every item *)
ProcessConstEarly ==
    /\ pc = "early"
    /\ IF \E i \in 1..N : owners[i].node = "Item" /\ Has(i, "early_err")
       THEN result' = Err("process_const_early") /\ pc' = "failed"
       ELSE result' = result /\ pc' = "check"
    /\ UNCHANGED <<owners, world, cur, item_to_module, vir, external_info,
                   erasure_info, hv>>

-----------------------------------------------------------------------------
(* Collaborators called by check_item.  Their code lives in other files of  *)
(* the crate; what they append to the krate and to ExternalInfo is taken    *)
(* from the design document, and whether they succeed is the input ok.    *)

Mpath(i) == IF i \in DOMAIN item_to_module THEN <<item_to_module[i]>> ELSE << >>

(* check_item's closure module_path *)
module_path(i) ==
    IF Mpath(i) # << >> /\ Mpath(i)[1] # NoneP
    THEN Mpath(i)[1]
    ELSE def_id_to_vir_path(i)

FunctionX(name, kind, implp, traitp, targs, modp) ==
    [name |-> name, kind |-> kind, impl_path |-> implp, trait_path |-> traitp,
     trait_typ_args |-> targs, owning_module |-> modp]

StaticKind == [kind |-> "Static", impl_path |-> NoneP, trait_path |-> NoneP,
               trait_typ_args |-> << >>]

Fail(st, m) == [st EXCEPT !.res = Err(m)]

(* a panic unwinds out of crate_to_vir: no Result is returned *)
Panic(st, m) == [st EXCEPT !.res = Panicked(m)]

check_item_fn(f, k, modp, st) ==
    IF ~owners[f].ok THEN Fail(st, "function lowering failed")
    ELSE IF Has(f, "external_fn_specification")
    THEN LET t == owners[f].target
         IN  IF Len(t) = 2
             THEN LET im == world.impls[t[1]]
                  IN  [st EXCEPT
                        !.vir.functions = Append(@,
                            FunctionX(method_path(t), "TraitMethodImpl",
                                      def_id_to_vir_path(t[1]),
                                      def_id_to_vir_path(im.trait), im.args, modp)),
                        !.xi.external_fn_specification_trait_method_impls =
                            Append(@, t)]
             ELSE [st EXCEPT !.vir.functions = Append(@,
                        FunctionX(def_id_to_vir_path(owners[f].ext), "Static",
                                  NoneP, NoneP, << >>, modp))]
    ELSE IF is_external(f)
    THEN [st EXCEPT !.er.external_functions = Append(@, def_id_to_vir_path(f))]
    ELSE [st EXCEPT !.vir.functions = Append(@,
            FunctionX(def_id_to_vir_path(f), k.kind, k.impl_path, k.trait_path,
                      k.trait_typ_args, modp))]

add_type_id(m, d) == [x \in (DOMAIN m) \cup {d} |-> IF x = d THEN TRUE ELSE m[x]]

check_item_adt(i, st) ==
    IF ~owners[i].ok THEN Fail(st, "datatype lowering failed")
    ELSE IF Has(i, "external_type_specification")
    THEN [st EXCEPT
            !.vir.datatypes = Append(@, [path |-> def_id_to_vir_path(owners[i].ext)]),
            !.xi.type_id_map = add_type_id(@, owners[i].ext)]
    ELSE [st EXCEPT !.vir.datatypes = Append(@, [path |-> def_id_to_vir_path(i)])]

declared_trait(i) == IF owners[i].ext # 0 THEN owners[i].ext ELSE i

TraitX(t) ==
    LET ms == SetToSeq(world.traits[t].methods)
    IN  [name |-> def_id_to_vir_path(t),
         methods |-> [k \in 1..Len(ms) |-> Append(def_id_to_vir_path(t), ms[k])],
         assoc_typs_bounds |-> [k \in 1..world.traits[t].assoc |-> k]]

translate_trait(i, st) ==
    IF ~owners[i].ok THEN Fail(st, "trait lowering failed")
    ELSE [st EXCEPT
            !.vir.traits = Append(@, TraitX(declared_trait(i))),
            !.xi.local_trait_ids = Append(@, declared_trait(i)),
            !.xi.trait_id_set = @ \cup {declared_trait(i)}]

-----------------------------------------------------------------------------
(* trait_impl_to_vir *)

(* mutant: the record carries no owning module *)
TraitImplX_NoModule(impl, modp, auto) ==
    [impl_path |-> def_id_to_vir_path(impl),
     trait_path |-> def_id_to_vir_path(world.impls[impl].trait),
     trait_typ_args |-> world.impls[impl].args,
     owning_module |-> NoneP,
     auto_imported |-> auto]

TraitImplX(impl, modp, auto) ==
    [impl_path |-> def_id_to_vir_path(impl),
     trait_path |-> def_id_to_vir_path(world.impls[impl].trait),
     trait_typ_args |-> world.impls[impl].args,
     owning_module |-> modp,
     auto_imported |-> auto]

(* mid_ty_to_vir and check_generics_bounds_no_polarity may fail: input ok *)
trait_impl_to_vir_ok(impl) == world.impls[impl].ok

-----------------------------------------------------------------------------
(* check_item *)

module_index(p) == CHOOSE k \in 1..Len(vir.modules) : vir.modules[k].path = p

reveal_stmts_ok(i) == \A k \in 1..Len(owners[i].body) : owners[i].body[k] > 0

reveals_never_taken(st, p) == FALSE

reveals_taken(st, p) == st.vir.modules[module_index(p)].reveals.set

(* handle_const_or_static, the item_broadcast_use branch *)
broadcast_use(i, st) ==
    IF owners[i].kind # "Const"
    THEN Fail(st, "invalid module-level broadcast use")
    ELSE IF Has(i, "generics")
    THEN Fail(st, "const generics with broadcast")
    ELSE IF Has(i, "body_not_block") \/ ~reveal_stmts_ok(i)
    THEN Fail(st, "invalid module-level broadcast use")
    ELSE IF Mpath(i) = << >> \/ Mpath(i)[1] = NoneP
    THEN Fail(st, "unsupported broadcast use here")
    ELSE IF reveals_taken(st, Mpath(i)[1])
    THEN Fail(st, "only one module-level broadcast use allowed for each module")
    ELSE [st EXCEPT !.vir.modules[module_index(Mpath(i)[1])].reveals =
                [set |-> TRUE, funs |-> owners[i].body]]

handle_const_or_static(i, st) ==
    IF Has(i, "size_of_global") THEN st
    ELSE IF Has(i, "item_broadcast_use") THEN broadcast_use(i, st)
    ELSE IF Has(i, "derive_structural")
    THEN [st EXCEPT !.er.ignored_functions = Append(@, i)]
    ELSE IF is_external(i)
    THEN [st EXCEPT !.er.external_functions = Append(@, def_id_to_vir_path(i))]
    ELSE IF ~owners[i].ok THEN Fail(st, "constant lowering failed")
    ELSE [st EXCEPT !.vir.functions = Append(@,
            FunctionX(def_id_to_vir_path(i), "Static", NoneP, NoneP, << >>,
                      module_path(i)))]

impl_items(i) == SetToSeq({c \in Children(i) : owners[c].node = "ImplItem"})

(* the structural-equality marker traits whose impls are ignored *)
ignore_impl(i) == world.traits[owners[i].trait].class \in {"structural", "eq"}

(* mutant: no method is recorded as ignored *)
push_ignored_nothing(cs, st) == st

RECURSIVE push_ignored(_, _)
push_ignored(cs, st) ==
    IF cs = << >> THEN st
    ELSE push_ignored(Tail(cs),
            IF owners[Head(cs)].kind = "Fn" /\ Has(Head(cs), "has_self")
            THEN [st EXCEPT !.er.ignored_functions = Append(@, Head(cs))]
            ELSE st)

impl_method_kind(i, c) ==
    IF owners[i].trait # 0
    THEN [kind |-> "TraitMethodImpl",
          impl_path |-> def_id_to_vir_path(i),
          trait_path |-> def_id_to_vir_path(owners[i].trait),
          trait_typ_args |-> world.impls[i].args]
    ELSE StaticKind

AssocTypeImplX(i, c) ==
    [name |-> owners[c].name,
     impl_path |-> def_id_to_vir_path(i),
     trait_path |-> def_id_to_vir_path(owners[i].trait),
     trait_typ_args |-> world.impls[i].args]

(* mutant: an item of a trait impl may be marked external *)
marked_external_in_trait_impl_never(i, c) == FALSE

(* lines 510-518: vattrs.external of an item of a trait impl *)
marked_external_in_trait_impl(i, c) == owners[i].trait # 0 /\ Has(c, "external")

(* mutant: generic parameters count as generics like predicates do *)
assoc_type_generics_with_params(c) ==
    Has(c, "params") \/ Has(c, "predicates") \/ Has(c, "where_clause")

(* lines 570-572: impl_item.generics.predicates.len() != 0                  *)
(*                || impl_item.generics.has_where_clause_predicates         *)
assoc_type_generics(c) == Has(c, "predicates") \/ Has(c, "where_clause")

(* one iteration of the loop over impll.items *)
check_impl_item(i, c, st) ==
    IF owners[i].trait # 0 /\ Has(c, "bad_attrs")
    THEN Fail(st, "invalid verifier attribute")
    ELSE IF marked_external_in_trait_impl(i, c)
    THEN Fail(st, "an item in a trait impl cannot be marked external")
    ELSE IF owners[c].kind = "Fn"
    THEN check_item_fn(c, impl_method_kind(i, c), module_path(i), st)
    ELSE IF owners[c].kind = "Type"
    THEN IF assoc_type_generics(c)
         THEN Fail(st, "unsupported generics on associated type")
         ELSE IF ~owners[c].ok THEN Fail(st, "type lowering failed")
         ELSE IF owners[i].trait # 0
         THEN [st EXCEPT !.vir.assoc_type_impls = Append(@, AssocTypeImplX(i, c))]
         ELSE Fail(st, "unsupported item ref in impl")
    ELSE Fail(st, "unsupported item ref in impl")

RECURSIVE check_impl_items(_, _, _)
check_impl_items(i, cs, st) ==
    IF cs = << >> \/ st.res.kind = "Err" THEN st
    ELSE check_impl_items(i, Tail(cs), check_impl_item(i, Head(cs), st))

(* mutant: the trait reference of the block is not lowered *)
lower_trait_ref_skipped(i, st) == st

(* mutant: the record of a local impl block is marked auto-imported *)
lower_trait_ref_auto_imported(i, st) ==
    IF owners[i].trait = 0 THEN st
    ELSE LET st1 == [st EXCEPT !.xi.internal_trait_impls = @ \cup {i}]
         IN  IF trait_impl_to_vir_ok(i)
             THEN [st1 EXCEPT !.vir.trait_impls =
                        Append(@, TraitImplX(i, module_path(i), TRUE))]
             ELSE Fail(st1, "trait impl lowering failed")

(* the trait reference of an impl block: lines 487-505 *)
lower_trait_ref(i, st) ==
    IF owners[i].trait = 0 THEN st
    ELSE LET st1 == [st EXCEPT !.xi.internal_trait_impls = @ \cup {i}]
         IN  IF trait_impl_to_vir_ok(i)
             THEN [st1 EXCEPT !.vir.trait_impls =
                        Append(@, TraitImplX(i, module_path(i), FALSE))]
             ELSE Fail(st1, "trait impl lowering failed")

(* mutant: every type counts as structural *)
is_structural_eq_shallow_always(i) == TRUE

(* ty_applied_never.is_structural_eq_shallow(ctxt.tcx), the oracle's answer *)
(* for the self type with its type parameters replaced by !: line 447       *)
is_structural_eq_shallow(i) == ~Has(i, "non_structural")

(* mutant: an impl block may be unsafe *)
check_item_impl_allowing_unsafe(i, st) ==
    IF is_external(i) THEN st
    ELSE IF owners[i].trait # 0 /\ ignore_impl(i)
    THEN push_ignored(impl_items(i), st)
    ELSE check_impl_items(i, impl_items(i), lower_trait_ref(i, st))

check_item_impl(i, st) ==
    IF Has(i, "no_path") THEN Panic(st, "def_id_to_vir_path")
    ELSE IF is_external(i) THEN st
    ELSE IF Has(i, "unsafe") /\ owners[i].trait = 0
    THEN Fail(st, "the verifier does not support unsafe here")
    ELSE IF owners[i].trait # 0 /\ world.traits[owners[i].trait].class = "fnlike"
    THEN Fail(st, "Verus does not support implementing this trait via an impl block")
    ELSE IF owners[i].trait # 0 /\ world.traits[owners[i].trait].class = "sealed"
    THEN Fail(st, "cannot implement sealed trait")
    ELSE IF owners[i].trait # 0 /\ Has(i, "unsafe")
    THEN Fail(st, "the verifier does not support unsafe here")
    ELSE IF owners[i].trait # 0
            /\ world.traits[owners[i].trait].class = "structural"
            /\ ~is_structural_eq_shallow(i)
    THEN [st EXCEPT !.res = ErrArg("structural impl for non-structural type",
                                   owners[i].self_ty)]
    ELSE IF owners[i].trait # 0 /\ ignore_impl(i)
    THEN push_ignored(impl_items(i), st)
    ELSE check_impl_items(i, impl_items(i), lower_trait_ref(i, st))

(* mutant: external_type_specification on an external struct is accepted *)
check_external_adt_accepting(i, st) ==
    [st EXCEPT !.vir.external_types = Append(@, def_id_to_vir_path(i))]

check_external_adt(i, st) ==
    IF owners[i].kind = "Struct" /\ Has(i, "external_type_specification")
    THEN Fail(st, "a type cannot be marked both external_type_specification and external")
    ELSE [st EXCEPT !.vir.external_types = Append(@, def_id_to_vir_path(i))]

check_item_trait(i, st) ==
    IF is_external(i)
    THEN IF Has(i, "external_trait_specification")
         THEN Fail(st, "a trait cannot be marked both external_trait_specification and external")
         ELSE st
    ELSE translate_trait(i, st)

(* kinds whose match arm does nothing *)
NoOpKinds == {"Use", "ExternCrate", "Mod", "ForeignMod", "Macro", "TyAlias"}

(* kinds whose match arm returns Ok(()) at once *)
SilentKinds_AllOpaque == {"GlobalAsm", "OpaqueTyAsyncFn", "OpaqueTy"}

SilentKinds == {"GlobalAsm", "OpaqueTyAsyncFn"}

(* the match on item.kind: lines 255-762 *)
dispatch_item(i, st) ==
    LET k == owners[i].kind
    IN  IF k = "Fn" THEN check_item_fn(i, StaticKind, module_path(i), st)
        ELSE IF k \in NoOpKinds THEN st
        ELSE IF k \in {"Struct", "Enum", "Union"}
        THEN IF is_external(i) THEN check_external_adt(i, st)
             ELSE check_item_adt(i, st)
        ELSE IF k = "Impl" THEN check_item_impl(i, st)
        ELSE IF k \in {"Static", "StaticMut"} /\ is_external(i) THEN st
        ELSE IF k = "Const"
        THEN IF Has(i, "generics") THEN Fail(st, "const generics")
             ELSE handle_const_or_static(i, st)
        ELSE IF k = "Static" THEN handle_const_or_static(i, st)
        ELSE IF k = "StaticMut" THEN Fail(st, "static mut")
        ELSE IF k = "Trait" THEN check_item_trait(i, st)
        ELSE IF k \in SilentKinds THEN st
        ELSE IF is_external(i) THEN st
        ELSE Fail(st, "unsupported item")

check_item(i, st) ==
    IF Has(i, "bad_attrs") THEN Fail(st, "invalid verifier attribute")
    ELSE IF Has(i, "internal_reveal_fn") THEN st
    ELSE IF Has(i, "external_fn_specification") /\ owners[i].kind # "Fn"
    THEN Fail(st, "external_fn_specification attribute not supported here")
    ELSE IF Has(i, "external_type_specification") /\ owners[i].kind # "Struct"
    THEN IF owners[i].kind = "Enum"
         THEN Fail(st, "external_type_specification proxy type should use a struct")
         ELSE Fail(st, "external_type_specification attribute not supported here")
    ELSE IF is_external(i) /\ Has(i, "no_path") THEN st
    ELSE dispatch_item(i, st)

check_foreign_item(i, st) ==
    IF owners[i].kind = "Fn"
    THEN IF owners[i].ok
         THEN [st EXCEPT !.vir.functions = Append(@,
                    FunctionX(def_id_to_vir_path(i), "ForeignFunction", NoneP,
                              NoneP, << >>, NoneP))]
         ELSE Fail(st, "foreign function lowering failed")
    ELSE IF Has(i, "bad_attrs") THEN Fail(st, "invalid verifier attribute")
    ELSE IF is_external(i) THEN st
    ELSE Fail(st, "unsupported foreign item")

check_impl_item_owner(i, st) ==
    IF owners[i].kind \in {"Fn", "Type"} THEN st
    ELSE IF Has(i, "bad_attrs") THEN Fail(st, "invalid verifier attribute")
    ELSE IF ~is_external(i) THEN Fail(st, "unsupported_impl_item")
    ELSE st

(* whole module is external, so skip the item: lines 1179-1183 *)
skip_item(i) == Mpath(i) = <<NoneP>>

(* one iteration of the third loop of crate_to_vir: lines 1173-1220 *)
check_owner(i, st) ==
    LET nd == owners[i].node
    IN  IF nd = "Item"
        THEN IF skip_item(i) THEN st ELSE check_item(i, st)
        ELSE IF nd = "ForeignItem" THEN check_foreign_item(i, st)
        ELSE IF nd = "ImplItem" THEN check_impl_item_owner(i, st)
        ELSE st

(* mutant: the third loop stops after its first owner *)
last_owner_is_first(i) == TRUE

(* the third loop has visited every owner: line 1173 *)
last_owner(i) == i = N

CheckOwner ==
    /\ pc = "check"
    /\ LET st == check_owner(cur, [vir |-> vir, xi |-> external_info,
                                   er |-> erasure_info, res |-> Ok])
       IN  /\ vir' = st.vir
           /\ external_info' = st.xi
           /\ erasure_info' = st.er
           /\ IF st.res.kind = "Err"
              THEN result' = st.res /\ pc' = "failed" /\ cur' = cur
              ELSE IF st.res.kind = "Panic"
              THEN result' = st.res /\ pc' = "panicked" /\ cur' = cur
              ELSE /\ result' = result
                   /\ IF last_owner(cur)
                      THEN pc' = "harvest" /\ cur' = 1
                      ELSE pc' = pc /\ cur' = cur + 1
    /\ UNCHANGED <<owners, world, item_to_module, hv>>

-----------------------------------------------------------------------------
(* ExternalInfo::has_type_id, as the pair <<answer, type_id_map afterwards>> *)

(* mutant: the stored answer is not used *)
has_type_id_recomputing(xi, d) ==
    LET has == def_id_to_vir_path(d) \in xi.type_paths
    IN  <<has, [x \in (DOMAIN xi.type_id_map) \cup {d} |->
                    IF x = d THEN has ELSE xi.type_id_map[x]]>>

has_type_id(xi, d) ==
    IF d \in DOMAIN xi.type_id_map
    THEN <<xi.type_id_map[d], xi.type_id_map>>
    ELSE LET has == def_id_to_vir_path(d) \in xi.type_paths
         IN  <<has, [x \in (DOMAIN xi.type_id_map) \cup {d} |->
                        IF x = d THEN has ELSE xi.type_id_map[x]]>>

(* A type atom is 0 for a built-in type and the DefId of the datatype       *)
(* otherwise; arg.walk() is the sequence of the atoms of a type argument.   *)
(* mid_ty_filter_for_external_impls over the atoms ts, as the pair          *)
(* <<answer, ExternalInfo afterwards>>.                                     *)
RECURSIVE mid_ty_filter_for_external_impls(_, _)
mid_ty_filter_for_external_impls(ts, xi) ==
    IF ts = << >> THEN <<TRUE, xi>>
    ELSE IF Head(ts) = 0 THEN mid_ty_filter_for_external_impls(Tail(ts), xi)
    ELSE LET h == has_type_id(xi, Head(ts))
             xi1 == [xi EXCEPT !.type_id_map = h[2]]
         IN  IF h[1] THEN mid_ty_filter_for_external_impls(Tail(ts), xi1)
             ELSE <<FALSE, xi1>>

(* the loop over trait_ref.args of lines 892-900 *)
filter_args_accept_all(as, xi) == <<TRUE, xi>>

RECURSIVE filter_args(_, _)
filter_args(as, xi) ==
    IF as = << >> THEN <<TRUE, xi>>
    ELSE LET f == mid_ty_filter_for_external_impls(Head(as), xi)
         IN  IF f[1] THEN filter_args(Tail(as), f[2]) ELSE f

mid_generics_filter_for_external_impls(impl, xi) ==
    world.impls[impl].bounds \subseteq xi.trait_id_set

-----------------------------------------------------------------------------
(* collect_external_trait_impls *)

RECURSIVE UnionAll(_)
UnionAll(ss) == IF ss = << >> THEN {} ELSE Head(ss) \cup UnionAll(Tail(ss))

datatype_paths(k) == {k.datatypes[j].path : j \in 1..Len(k.datatypes)}

trait_names(k) == {k.traits[j].name : j \in 1..Len(k.traits)}

(* lines 825-830 *)
known_type_paths ==
    UnionAll([k \in 1..Len(world.imported) |-> datatype_paths(world.imported[k])])
        \cup datatype_paths(vir)

(* lines 838-841 *)
old_traits ==
    UnionAll([k \in 1..Len(world.imported) |-> trait_names(world.imported[k])])

(* mutant: every trait of the krate counts as new *)
new_traits_with_old == trait_names(vir)

(* lines 842-846 *)
new_traits == trait_names(vir) \ old_traits

(* lines 847-860 *)
all_trait_ids ==
    SelectSeq(world.crate_traits,
              LAMBDA t : def_id_to_vir_path(t) \in old_traits \cup new_traits)
        \o external_info.local_trait_ids

(* the (trait, impl) pairs the double loop of lines 865-883 goes through *)
enumeration(tids) ==
    Flatten([k \in 1..Len(tids) |->
        [j \in 1..Len(world.all_impls[tids[k]]) |->
            <<tids[k], world.all_impls[tids[k]][j]>>]])

HarvestSetup ==
    /\ pc = "harvest"
    /\ vir' = [vir EXCEPT !.external_fns = erasure_info.external_functions]
    /\ external_info' = [external_info EXCEPT
            !.type_paths = @ \cup known_type_paths,
            !.trait_id_set = @ \cup Range(all_trait_ids)]
    /\ hv' = [hv EXCEPT !.new_traits = new_traits,
                        !.all_trait_ids = all_trait_ids,
                        !.work = enumeration(all_trait_ids)]
    /\ pc' = IF enumeration(all_trait_ids) = << >> THEN "group" ELSE "enumerate"
    /\ cur' = 1
    /\ UNCHANGED <<owners, world, item_to_module, erasure_info, result>>

never_considered(impl) == FALSE

already_considered(impl) == impl \in hv.considered_impls

already_internal(impl) == impl \in external_info.internal_trait_impls

is_candidate(trait_id, impl) ==
    def_id_to_vir_path(trait_id) \in hv.new_traits \/ IsLocal(impl)

(* one iteration of the inner loop of lines 867-882 *)
EnumerateImpl ==
    /\ pc = "enumerate"
    /\ LET trait_id == hv.work[cur][1]
           impl == hv.work[cur][2]
           auto == IF ~already_considered(impl) /\ ~already_internal(impl)
                      /\ is_candidate(trait_id, impl)
                   THEN Append(hv.auto_import_impls, impl)
                   ELSE hv.auto_import_impls
       IN  /\ hv' = [hv EXCEPT !.considered_impls = @ \cup {impl},
                               !.auto_import_impls = auto]
           /\ IF cur = Len(hv.work)
              THEN /\ pc' = IF auto = << >> THEN "group" ELSE "import"
                   /\ cur' = 1
              ELSE pc' = pc /\ cur' = cur + 1
    /\ UNCHANGED <<owners, world, item_to_module, vir, external_info,
                   erasure_info, result>>

(* tcx.impl_trait_ref(&impl_def_id) is Some: lines 886-890 *)
impl_trait_ref(impl) == world.impls[impl].ref

(* mutant: an error of trait_impl_to_vir is returned *)
AutoImport_Propagating ==
    /\ pc = "import"
    /\ ~trait_impl_to_vir_ok(hv.auto_import_impls[cur])
    /\ pc' = "failed"
    /\ result' = Err("trait impl lowering failed")
    /\ UNCHANGED <<owners, world, cur, item_to_module, vir, external_info,
                   erasure_info, hv>>

(* one iteration of the loop 'impls of lines 886-922 *)
AutoImport ==
    /\ pc = "import"
    /\ LET impl == hv.auto_import_impls[cur]
           f == IF impl_trait_ref(impl)
                THEN filter_args(world.impls[impl].args, external_info)
                ELSE <<FALSE, external_info>>
           pass == f[1] /\ mid_generics_filter_for_external_impls(impl, f[2])
                        /\ trait_impl_to_vir_ok(impl)
       IN  /\ external_info' = f[2]
           /\ vir' = IF pass
                     THEN [vir EXCEPT !.trait_impls = Append(@,
                            TraitImplX(impl, PopSegment(def_id_to_vir_path(impl)),
                                       TRUE))]
                     ELSE vir
           /\ hv' = IF pass
                    THEN [hv EXCEPT !.collected_impls = @ \cup {impl}]
                    ELSE hv
    /\ IF cur = Len(hv.auto_import_impls)
       THEN pc' = "group" /\ cur' = 1
       ELSE pc' = pc /\ cur' = cur + 1
    /\ UNCHANGED <<owners, world, item_to_module, erasure_info, result>>

(* lines 928-931: a later trait of the same name replaces an earlier one *)
trait_map ==
    [p \in trait_names(vir) |->
        vir.traits[CHOOSE k \in 1..Len(vir.traits) :
            /\ vir.traits[k].name = p
            /\ \A j \in (k + 1)..Len(vir.traits) : vir.traits[j].name # p]]

(* lines 933-947: the bindings grouped by the path of their impl, in the     *)
(* order in which each impl is first met                                    *)
RECURSIVE group_bindings(_, _)
group_bindings(bs, groups) ==
    IF bs = << >> THEN groups
    ELSE LET b == Head(bs)
             p == PopSegment(method_path(b))
             hit == {k \in 1..Len(groups) : groups[k].impl_path = p}
         IN  group_bindings(Tail(bs),
                IF hit # {}
                THEN LET k == CHOOSE k \in hit : TRUE
                     IN  [groups EXCEPT ![k].funs = Append(@, b)]
                ELSE Append(groups,
                        [impl_path |-> p, impl_def_id |-> b[1], funs |-> <<b>>]))

GroupBindings ==
    /\ pc = "group"
    /\ LET gs == group_bindings(
                    external_info.external_fn_specification_trait_method_impls,
                    << >>)
       IN  /\ hv' = [hv EXCEPT !.trait_map = trait_map, !.new_trait_impls = gs]
           /\ pc' = IF gs = << >> THEN "return" ELSE "reconcile"
    /\ cur' = 1
    /\ UNCHANGED <<owners, world, item_to_module, vir, external_info,
                   erasure_info, result>>

trait_known_here(g) ==
    def_id_to_vir_path(world.impls[g.impl_def_id].trait) \in DOMAIN hv.trait_map

trait_of_group(g) ==
    hv.trait_map[def_id_to_vir_path(world.impls[g.impl_def_id].trait)]

(* lines 959-965: does funs name one method twice *)
has_duplicate(funs) ==
    \E j, k \in 1..Len(funs) :
        j < k /\ LastSegment(method_path(funs[j])) = LastSegment(method_path(funs[k]))

methods_we_have(funs) == {LastSegment(method_path(funs[k])) : k \in 1..Len(funs)}

(* lines 973-983: the trait's methods the group leaves out, in trait order *)
missing_methods(t, funs) ==
    SelectSeq(t.methods, LAMBDA m : LastSegment(m) \notin methods_we_have(funs))

already_collected(impl) == impl \in hv.collected_impls

(* lines 957-994: the group of a trait that krate.traits has *)
reconcile_known_group(g) ==
    IF has_duplicate(g.funs)
    THEN [res |-> Err("duplicate external_fn_specification for this method"),
          push |-> FALSE]
    ELSE IF Len(trait_of_group(g).assoc_typs_bounds) > 0
    THEN [res |-> Err("external_fn_specification: the trait has associated types"),
          push |-> FALSE]
    ELSE IF missing_methods(trait_of_group(g), g.funs) # << >>
    THEN [res |-> ErrArg("external_fn_specification: a method is missing",
                LastSegment(Head(missing_methods(trait_of_group(g), g.funs)))),
          push |-> FALSE]
    ELSE IF already_collected(g.impl_def_id) THEN [res |-> Ok, push |-> FALSE]
    ELSE IF ~trait_impl_to_vir_ok(g.impl_def_id)
    THEN [res |-> Err("trait impl lowering failed"), push |-> FALSE]
    ELSE [res |-> Ok, push |-> TRUE]

(* mutant: a group of a trait that krate.traits lacks is an error *)
reconcile_group_unknown_trait_fails(g) ==
    IF ~trait_known_here(g)
    THEN [res |-> Err("external_fn_specification: unknown trait"), push |-> FALSE]
    ELSE reconcile_known_group(g)

(* the body of the loop of lines 949-994 for group g: the result and whether *)
(* a record is pushed                                                        *)
reconcile_group(g) ==
    IF ~trait_known_here(g) THEN [res |-> Ok, push |-> FALSE]
    ELSE reconcile_known_group(g)

ReconcileGroup ==
    /\ pc = "reconcile"
    /\ LET g == hv.new_trait_impls[cur]
           r == reconcile_group(g)
       IN  /\ vir' = IF r.push
                     THEN [vir EXCEPT !.trait_impls = Append(@,
                            TraitImplX(g.impl_def_id, PopSegment(g.impl_path), FALSE))]
                     ELSE vir
           /\ IF r.res.kind = "Err"
              THEN result' = r.res /\ pc' = "failed" /\ cur' = cur
              ELSE /\ result' = result
                   /\ IF cur = Len(hv.new_trait_impls)
                      THEN pc' = "return" /\ cur' = 1
                      ELSE pc' = pc /\ cur' = cur + 1
    /\ UNCHANGED <<owners, world, item_to_module, external_info, erasure_info, hv>>

(* Ok((Arc::new(vir), item_to_module)) *)
Return ==
    /\ pc = "return"
    /\ result' = Ok
    /\ pc' = "done"
    /\ UNCHANGED <<owners, world, cur, item_to_module, vir, external_info,
                   erasure_info, hv>>

Next ==
    \/ MapOwner
    \/ ProcessConstEarly
    \/ CheckOwner
    \/ HarvestSetup
    \/ EnumerateImpl
    \/ AutoImport
    \/ GroupBindings
    \/ ReconcileGroup
    \/ Return

-----------------------------------------------------------------------------
(* The compilation units explored *)

Root == Owner("Crate", 0, "Crate", {})

Item(parent, kind, attrs) == Owner("Item", parent, kind, attrs)

PlainTrait(n) == [methods |-> {1, 2}, assoc |-> n, class |-> "plain"]

NoWorld ==
    [traits |-> << >>, impls |-> << >>, all_impls |-> << >>,
     crate_traits |-> << >>, imported |-> << >>]

(* Nesting: modules and functions nested in each other, each one plain,     *)
(* external or external_body; a parent always comes before its children.    *)
NestShapes ==
    {<<"Mod", {}>>, <<"Mod", {"external"}>>, <<"Fn", {}>>,
     <<"Fn", {"external_body"}>>}

NestedUnits ==
    UNION {
        {[owners |-> <<Root>> \o [k \in 1..n |-> Item(par[k], sh[k][1], sh[k][2])],
          world |-> NoWorld] :
            par \in {q \in [1..n -> 1..n] : \A k \in 1..n : q[k] <= k},
            sh \in [1..n -> NestShapes]} :
        n \in 1..MaxNested}

(* Module-level broadcast use: the root, one module, and constants in them  *)
BroadcastConst(parent, body) ==
    [Item(parent, "Const", {"item_broadcast_use"}) EXCEPT !.body = body]

ConstShapes ==
    {BroadcastConst(par, body) : par \in {1, 2}, body \in {<<7>>, <<7, 8>>}}
        \cup {BroadcastConst(1, << >>),
              BroadcastConst(2, <<7, 0>>),
              Item(1, "Static", {"item_broadcast_use"}),
              Item(2, "Const", {"item_broadcast_use", "body_not_block"})}

BroadcastUnits ==
    UNION {
        {[owners |-> <<Root, Item(1, "Mod", {})>> \o cs, world |-> NoWorld] :
            cs \in [1..n -> ConstShapes]} :
        n \in 1..MaxConsts}

(* One item of every kind under the root, with the attributes check_item    *)
(* looks at before it matches on the kind                                   *)
ItemKinds ==
    {"Fn", "Use", "ExternCrate", "Mod", "ForeignMod", "Struct", "Enum", "Union",
     "Impl", "Static", "StaticMut", "Const", "Macro", "Trait", "TraitAuto",
     "TraitUnsafe", "TraitAlias", "TyAlias", "GlobalAsm", "OpaqueTyAsyncFn",
     "OpaqueTy"}

(* no_path: def_id_to_vir_path_option gives None, asked of external items only *)
KindAttrs ==
    {e \cup a : e \in {{}, {"external"}, {"default_external"}},
                a \in {{}, {"internal_reveal_fn"}, {"external_fn_specification"},
                       {"external_type_specification"}, {"bad_attrs"},
                       {"early_err"}}}
        \cup {e \cup a : e \in {{"external"}, {"default_external"}},
                          a \in {{"no_path"},
                                 {"external_type_specification", "no_path"}}}

KindWorld ==
    [NoWorld EXCEPT !.traits = [t \in {2} |-> PlainTrait(0)],
                    !.all_impls = [t \in {2} |-> << >>]]

KindUnits ==
    {[owners |-> <<Root, [Item(1, k, a) EXCEPT
                            !.ext = IF k \in {"Fn", "Struct"} THEN 150 ELSE 0,
                            !.ok = ok]>>,
      world |-> KindWorld] :
        k \in ItemKinds, a \in KindAttrs, ok \in BOOLEAN}

(* Traits and impls.  One trait T with methods 1 and 2: declared by owner 2 *)
(* (DefId 2), or DefId 101 of a dependency crate, known through an           *)
(* external_trait_specification of owner 2, through an imported krate, or    *)
(* not at all.  Owner 3 is a local impl of T; DefId 111 is an impl of T in a *)
(* dependency crate.  Datatype 121 is in an imported krate; 122 is unknown.  *)
TraitStatus == {"local", "extspec", "imported", "unknown"}

TraitId(status) == IF status = "local" THEN 2 ELSE 101

TraitOwner(status) ==
    IF status = "local" THEN Item(1, "Trait", {})
    ELSE IF status \in {"extspec", "both"}
    THEN [Item(1, "Trait", {"external_trait_specification"}) EXCEPT !.ext = 101]
    ELSE Item(1, "Use", {})

ImportedKrate(status) ==
    [traits |-> IF status \in {"imported", "both"}
                THEN <<[name |-> <<DepCrate, 101>>]>> ELSE << >>,
     datatypes |-> <<[path |-> <<DepCrate, 121>>]>>]

ImplInfo(t, args, ok) ==
    [trait |-> t, args |-> args, bounds |-> {}, ok |-> ok, ref |-> TRUE]

BindingFn(t) ==
    [Item(1, "Fn", {"external_fn_specification"}) EXCEPT !.target = t]

TraitWorld(status, assoc, largs, dargs, lok, dok, order) ==
    [traits |-> [t \in {2, 101} |-> PlainTrait(assoc)],
     impls |-> [d \in {3, 111} |->
                    IF d = 3 THEN ImplInfo(TraitId(status), largs, lok)
                    ELSE ImplInfo(TraitId(status), dargs, dok)],
     all_impls |-> [t \in {2, 101} |-> IF t = TraitId(status) THEN order ELSE << >>],
     crate_traits |-> <<101>>,
     imported |-> <<ImportedKrate(status)>>]

LocalImpl(status, attrs) ==
    [Item(1, "Impl", attrs) EXCEPT !.trait = TraitId(status)]

ArgChoices == {<< <<121>> >>, << <<122>> >>, << <<121>>, <<0, 122>> >>}

(* harvesting: every way the two impls can look, no binding *)
HarvestUnits ==
    {[owners |-> <<Root, TraitOwner(status), LocalImpl(status, la)>>,
      world |-> TraitWorld(status, 0, largs, dargs, TRUE, dok, order)] :
        status \in TraitStatus \cup {"both"},
        la \in {{}, {"external"}},
        largs \in {<< <<121>> >>, << <<122>> >>},
        dargs \in ArgChoices,
        dok \in BOOLEAN,
        order \in {<<3, 111>>, <<111, 3>>, <<111>>}}

(* candidates that the auto-import loop drops for another reason than a     *)
(* type argument: no trait reference, or a bound on an unknown trait        *)
(* Sync (DefId 204) is a trait of a dependency crate; an imported krate     *)
(* declares it to the verifier or not                                       *)
WithSync(w, declared) ==
    [w EXCEPT
        !.crate_traits = @ \o <<204>>,
        !.traits = [t \in {2, 101, 204} |-> PlainTrait(0)],
        !.all_impls = [t \in {2, 101, 204} |-> IF t = 204 THEN << >> ELSE w.all_impls[t]],
        !.imported = IF declared
                     THEN <<[@[1] EXCEPT !.traits = @ \o <<[name |-> <<DepCrate, 204>>]>>]>>
                     ELSE @]

DroppedImplUnits ==
    {[owners |-> <<Root, TraitOwner("local"), LocalImpl("local", {"external"})>>,
      world |-> WithSync(
                  [TraitWorld("local", 0, << <<121>> >>, << <<121>> >>, lok, TRUE,
                              order)
                    EXCEPT !.impls[111].ref = r, !.impls[111].bounds = b],
                  sync)] :
        lok \in BOOLEAN,
        order \in {<<3, 111>>, <<111, 3>>},
        r \in BOOLEAN,
        b \in {{}, {2}, {999}, {204}},
        sync \in BOOLEAN}

BindingTargets == {<<3, 1>>, <<3, 2>>, <<111, 1>>, <<111, 2>>}

(* reconciliation: up to MaxBindings external_fn_specification functions *)
BindingUnits ==
    UNION {
        {[owners |-> <<Root, TraitOwner(status), LocalImpl(status, la)>>
                        \o [k \in 1..n |-> BindingFn(bs[k])],
          world |-> TraitWorld(status, assoc, << <<121>> >>, dargs, TRUE, dok,
                               <<3, 111>>)] :
            status \in TraitStatus,
            assoc \in {0, 1},
            la \in {{}, {"external"}},
            dargs \in {<< <<121>> >>, << <<122>> >>},
            dok \in BOOLEAN,
            bs \in [1..n -> BindingTargets]} :
        n \in 1..MaxBindings}

(* Impl blocks: owner 2 declares trait T, owner 3 is an impl block          *)
(* (inherent, or of T), owners 4.. are its items                             *)
ImplItem(parent, kind, attrs) == Owner("ImplItem", parent, kind, attrs)

ForeignItem(parent, kind, attrs) == Owner("ForeignItem", parent, kind, attrs)

ImplItemShapes ==
    {<<"Fn", {}>>, <<"Fn", {"external"}>>, <<"Type", {}>>, <<"Type", {"params"}>>,
     <<"Type", {"predicates"}>>, <<"Type", {"where_clause"}>>, <<"Const", {}>>,
     <<"Fn", {"has_self"}>>}

(* the shapes an item after the first one is drawn from *)
LaterImplItemShapes ==
    {<<"Fn", {}>>, <<"Fn", {"external"}>>, <<"Fn", {"has_self"}>>,
     <<"Type", {"predicates"}>>}

ImplBlockShapes ==
    {<<0, "plain", a>> : a \in {{}, {"unsafe"}, {"external"}}}
        \cup {<<2, cl, a>> : cl \in {"plain", "sealed", "structural", "eq"},
                              a \in {{}, {"unsafe"}}}
        \cup {<<2, "plain", {"external"}>>}
        \cup {<<2, cl, {"non_structural"}>> : cl \in {"structural", "eq"}}

(* the datatype an impl block of ImplUnits is for *)
SelfType == 131

ImplWorld(t, class) ==
    [traits |-> [x \in {2} |-> [PlainTrait(1) EXCEPT !.class = class]],
     impls |-> [d \in {3} |-> ImplInfo(2, << <<0>> >>, TRUE)],
     all_impls |-> [x \in {2} |-> IF t = 2 THEN <<3>> ELSE << >>],
     crate_traits |-> << >>,
     imported |-> << >>]

ImplUnits ==
    UNION {
        {[owners |-> <<Root, Item(1, "Trait", {}),
                       [Item(1, "Impl", b[3]) EXCEPT !.trait = b[1],
                                                     !.self_ty = SelfType]>>
                        \o [k \in 1..n |->
                                [ImplItem(3, sh[k][1], sh[k][2]) EXCEPT
                                    !.name = k + 3]],
          world |-> ImplWorld(b[1], b[2])] :
            b \in ImplBlockShapes,
            sh \in {s \in [1..n -> ImplItemShapes] :
                        \A k \in 2..n : s[k] \in LaterImplItemShapes}} :
        n \in 1..MaxImplItems}

(* A module, external or not, that holds an inherent impl block with one    *)
(* item or a foreign module with one foreign item                           *)
ModContents ==
    {<<Item(2, "Impl", {}), ImplItem(3, k, a)>> :
            k \in {"Fn", "Type", "Const"}, a \in {{}, {"external"}}}
        \cup {<<Item(2, "ForeignMod", {}), [ForeignItem(3, k, a) EXCEPT !.ok = ok]>> :
            k \in {"Fn", "Static"}, a \in {{}, {"external"}}, ok \in BOOLEAN}

ModContentUnits ==
    {[owners |-> <<Root, Item(1, "Mod", ma)>> \o c, world |-> NoWorld] :
        ma \in {{}, {"external"}}, c \in ModContents}

(* Declarations for which def_id_to_vir_path_option gives None: an impl      *)
(* block or a use declaration, external or not                              *)
UnresolvableUnits ==
    {[owners |-> <<Root, Item(1, k, {"no_path"} \cup e), Item(1, "Use", {})>>,
      world |-> KindWorld] :
        k \in {"Impl", "Use"}, e \in {{}, {"external"}, {"default_external"}}}

Units == NestedUnits \cup BroadcastUnits \cup KindUnits \cup HarvestUnits
            \cup BindingUnits \cup ImplUnits \cup ModContentUnits
            \cup DroppedImplUnits \cup UnresolvableUnits

-----------------------------------------------------------------------------
(* crate_to_vir: lines 1058-1094 *)

BuiltinMarkerTraits == {201, 202, 203, 204, 205, 206}

EmptyKrate ==
    [functions |-> << >>, datatypes |-> << >>, traits |-> << >>,
     trait_impls |-> << >>, assoc_type_impls |-> << >>, modules |-> << >>,
     external_fns |-> << >>, external_types |-> << >>]

(* mutant: the lang-item marker traits are not inserted *)
NewExternalInfo_NoMarkerTraits ==
    [local_trait_ids |-> << >>,
     trait_id_set |-> {},
     type_paths |-> {},
     type_id_map |-> << >>,
     internal_trait_impls |-> {},
     external_fn_specification_trait_method_impls |-> << >>]

NewExternalInfo ==
    [local_trait_ids |-> << >>,
     trait_id_set |-> BuiltinMarkerTraits,
     type_paths |-> {},
     type_id_map |-> << >>,
     internal_trait_impls |-> {},
     external_fn_specification_trait_method_impls |-> << >>]

NewHarvest ==
    [considered_impls |-> {}, collected_impls |-> {}, new_traits |-> {},
     all_trait_ids |-> << >>, work |-> << >>, auto_import_impls |-> << >>,
     trait_map |-> << >>, new_trait_impls |-> << >>]

Init ==
    /\ \E u \in Units : owners = u.owners /\ world = u.world
    /\ pc = "map"
    /\ cur = 1
    /\ item_to_module = << >>
    /\ vir = EmptyKrate
    /\ external_info = NewExternalInfo
    /\ erasure_info = [ignored_functions |-> << >>, external_functions |-> << >>]
    /\ hv = NewHarvest
    /\ result = Running

Spec == Init /\ [][Next]_vars

-----------------------------------------------------------------------------
(* ExternalInfo on its own: any sequence of add_type_id, has_type_id and    *)
(* insertions into type_paths.  pc is the last operation, cur its DefId and *)
(* result what has_type_id answered.                                        *)

TypeIds == {120 + k : k \in 1..MaxTypeIds}

Answer(b) == [kind |-> "Answer", msg |-> "", arg |-> IF b THEN 1 ELSE 0]

InfoInit ==
    /\ owners = <<Root>>
    /\ world = NoWorld
    /\ pc = "new"
    /\ cur = 0
    /\ item_to_module = << >>
    /\ vir = EmptyKrate
    /\ external_info = NewExternalInfo
    /\ erasure_info = [ignored_functions |-> << >>, external_functions |-> << >>]
    /\ hv = NewHarvest
    /\ result = Running

AddTypeId ==
    /\ \E d \in TypeIds :
        /\ external_info' = [external_info EXCEPT !.type_id_map = add_type_id(@, d)]
        /\ cur' = d
    /\ pc' = "add_type_id"
    /\ UNCHANGED <<owners, world, item_to_module, vir, erasure_info, hv, result>>

HasTypeId ==
    /\ \E d \in TypeIds :
        LET h == has_type_id(external_info, d)
        IN  /\ external_info' = [external_info EXCEPT !.type_id_map = h[2]]
            /\ result' = Answer(h[1])
            /\ cur' = d
    /\ pc' = "has_type_id"
    /\ UNCHANGED <<owners, world, item_to_module, vir, erasure_info, hv>>

(* external_info.type_paths.insert(..): line 828 *)
InsertTypePath ==
    /\ \E d \in TypeIds :
        /\ external_info' = [external_info EXCEPT
                !.type_paths = @ \cup {def_id_to_vir_path(d)}]
        /\ cur' = d
    /\ pc' = "insert"
    /\ UNCHANGED <<owners, world, item_to_module, vir, erasure_info, hv, result>>

InfoNext == AddTypeId \/ HasTypeId \/ InsertTypePath

SpecInfo == InfoInit /\ [][InfoNext]_vars

-----------------------------------------------------------------------------
(* Properties *)

PastMapping ==
    pc \in {"early", "check", "harvest", "enumerate", "import", "group",
            "reconcile", "return", "done"}

IsItem(i) == owners[i].node = "Item"

ExternalMod(i) == IsItem(i) /\ owners[i].kind = "Mod" /\ Has(i, "external")

RECURSIVE StrictAncestors(_)
StrictAncestors(i) ==
    IF i <= 1 THEN {}
    ELSE {owners[i].parent} \cup StrictAncestors(owners[i].parent)

(* C1: once the module map is built, every item nested at any depth in a    *)
(* module marked external is mapped to None, also the items of a sub-module *)
(* that is not itself marked external.                                      *)
C1_ExternalModuleClosure ==
    PastMapping =>
        \A c \in 1..N : ExternalMod(c) =>
            \A j \in Range(walk_item(c)) : Mpath(j) = <<NoneP>>

(* C10, as claimed: once the module map is built, every item of the unit    *)
(* has an entry in item_to_module, Some(path) or None.                      *)
C10_EveryItemMapped ==
    PastMapping => \A i \in 1..N : IsItem(i) => i \in DOMAIN item_to_module

DeclaredInModule(i) ==
    \/ owners[owners[i].parent].node = "Crate"
    \/ IsItem(owners[i].parent) /\ owners[owners[i].parent].kind = "Mod"

MarksNested(a) ==
    /\ IsItem(a)
    /\ IF owners[a].kind = "Mod" THEN Has(a, "external")
       ELSE Has(a, "external") \/ Has(a, "external_body")

(* C10, amended: once the module map is built, an item has an entry in      *)
(* item_to_module exactly when it is declared directly in a module (or the  *)
(* crate root), is itself a module marked external, or is nested in an      *)
(* external module or in an item marked external or external_body; any      *)
(* other item declared in the body of a function has no entry.              *)
C10_MappedIffModuleMemberOrUnderExternal ==
    PastMapping =>
        \A i \in 1..N : IsItem(i) =>
            (i \in DOMAIN item_to_module
                <=> \/ DeclaredInModule(i)
                    \/ ExternalMod(i)
                    \/ \E a \in StrictAncestors(i) : MarksNested(a))

(* C10 witness: the map is built and an item in a function body has no entry *)
C10_Witness ==
    /\ PastMapping
    /\ \E i \in 1..N :
        /\ IsItem(i)
        /\ owners[owners[i].parent].kind = "Fn"
        /\ i \notin DOMAIN item_to_module
    /\ \E i \in 1..N :
        /\ IsItem(i)
        /\ owners[owners[i].parent].kind = "Fn"
        /\ Mpath(i) = <<NoneP>>

-----------------------------------------------------------------------------
(* Trait implementations *)

ImplRecords(path) ==
    {k \in 1..Len(vir.trait_impls) : vir.trait_impls[k].impl_path = path}

InternalImplPaths ==
    {def_id_to_vir_path(d) : d \in external_info.internal_trait_impls}

(* C2: after a successful pass no two records of krate.trait_impls have the *)
(* same impl_path.                                                          *)
C2_NoDuplicateImplPaths ==
    pc = "done" =>
        \A j, k \in 1..Len(vir.trait_impls) :
            j # k => vir.trait_impls[j].impl_path # vir.trait_impls[k].impl_path

(* C3: a record appended by the auto-import loop (the only place that sets  *)
(* auto_imported) is never for an impl in internal_trait_impls and never    *)
(* repeats the impl_path of a record already in the krate, however often    *)
(* the impl is enumerated.                                                  *)
C3_AutoImportedOnceAndNotInternal ==
    \A k \in 1..Len(vir.trait_impls) :
        vir.trait_impls[k].auto_imported =>
            /\ vir.trait_impls[k].impl_path \notin InternalImplPaths
            /\ \A j \in 1..(k - 1) :
                vir.trait_impls[j].impl_path # vir.trait_impls[k].impl_path

TimesEnumerated(impl) ==
    Cardinality({k \in 1..Len(hv.work) : hv.work[k][2] = impl})

(* C3 witness: an impl enumerated twice was auto-imported (once), and an    *)
(* internally lowered impl was enumerated too                               *)
C3_Witness ==
    /\ pc = "done"
    /\ \E impl \in DOMAIN world.impls :
        /\ TimesEnumerated(impl) >= 2
        /\ \E k \in ImplRecords(def_id_to_vir_path(impl)) :
                vir.trait_impls[k].auto_imported
    /\ \E impl \in external_info.internal_trait_impls :
        TimesEnumerated(impl) >= 2

(* a datatype that is in no known krate and was never registered *)
Unrecognized(d) ==
    /\ d # 0
    /\ def_id_to_vir_path(d) \notin known_type_paths
    /\ ~(d \in DOMAIN external_info.type_id_map /\ external_info.type_id_map[d])

HasUnknownArg(args) ==
    \E a \in 1..Len(args) : \E k \in 1..Len(args[a]) : Unrecognized(args[a][k])

(* C4, as claimed: no record of the output krate's trait_impls has a type   *)
(* argument that is an unrecognized external type.                          *)
C4_NoRecordWithUnknownTypeArg ==
    pc = "done" =>
        \A k \in 1..Len(vir.trait_impls) :
            ~HasUnknownArg(vir.trait_impls[k].trait_typ_args)

(* C4, amended: no record appended by the auto-import loop has a type       *)
(* argument that is an unrecognized external type, in whatever order the    *)
(* impls are enumerated.                                                    *)
C4_NoAutoImportedRecordWithUnknownTypeArg ==
    \A k \in 1..Len(vir.trait_impls) :
        vir.trait_impls[k].auto_imported =>
            ~HasUnknownArg(vir.trait_impls[k].trait_typ_args)

(* C4 witness: a candidate with an unknown type argument was dropped and    *)
(* another candidate was imported                                           *)
C4_Witness ==
    /\ pc = "done"
    /\ \E impl \in Range(hv.auto_import_impls) :
        /\ HasUnknownArg(world.impls[impl].args)
        /\ ImplRecords(def_id_to_vir_path(impl)) = {}
    /\ \E k \in 1..Len(vir.trait_impls) : vir.trait_impls[k].auto_imported

-----------------------------------------------------------------------------
(* Reconciliation of external_fn_specification bindings *)

Bindings == external_info.external_fn_specification_trait_method_impls

BoundImpls == {Bindings[k][1] : k \in 1..Len(Bindings)}

Covered(impl) == {Bindings[k][2] : k \in {j \in 1..Len(Bindings) : Bindings[j][1] = impl}}

KnownToVerifier(t) == def_id_to_vir_path(t) \in old_traits \cup trait_names(vir)

BoundTwice(impl) ==
    \E j, k \in 1..Len(Bindings) :
        j < k /\ Bindings[j] = Bindings[k] /\ Bindings[j][1] = impl

(* C5: the pass does not succeed when the bindings of some impl of a trait  *)
(* known to the verifier (declared here or in an imported krate) cover only *)
(* a strict subset of the trait's methods.                                  *)
C5_PartialCoverageFails ==
    pc = "done" =>
        \A impl \in BoundImpls :
            KnownToVerifier(world.impls[impl].trait) =>
                Covered(impl) = world.traits[world.impls[impl].trait].methods

(* C6: the pass does not succeed when two bindings of one impl of a trait   *)
(* known to the verifier name the same method.                              *)
C6_DuplicateBindingFails ==
    pc = "done" =>
        \A impl \in BoundImpls :
            KnownToVerifier(world.impls[impl].trait) => ~BoundTwice(impl)

CompleteGroup(g) ==
    /\ trait_known_here(g)
    /\ ~has_duplicate(g.funs)
    /\ Len(trait_of_group(g).assoc_typs_bounds) = 0
    /\ missing_methods(trait_of_group(g), g.funs) = << >>

(* C7: for a group that covers every method of its trait exactly once       *)
(* (trait without associated types), the reconciliation step appends        *)
(* nothing when krate.trait_impls already has a record for the impl, from   *)
(* harvesting or from direct lowering, and otherwise appends one record     *)
(* with auto_imported = false.                                              *)
C7_ReconcileSkipsOrAppendsOne ==
    [][(pc = "reconcile" /\ CompleteGroup(hv.new_trait_impls[cur])) =>
        IF ImplRecords(hv.new_trait_impls[cur].impl_path) # {}
        THEN vir'.trait_impls = vir.trait_impls
        ELSE pc' # "failed" =>
                /\ Len(vir'.trait_impls) = Len(vir.trait_impls) + 1
                /\ SubSeq(vir'.trait_impls, 1, Len(vir.trait_impls)) = vir.trait_impls
                /\ ~vir'.trait_impls[Len(vir'.trait_impls)].auto_imported
                /\ vir'.trait_impls[Len(vir'.trait_impls)].impl_path
                        = hv.new_trait_impls[cur].impl_path]_vars

-----------------------------------------------------------------------------
(* Module-level broadcast use *)

(* a module-level broadcast-use constant that the third loop hands to       *)
(* check_item and that reaches the item_broadcast_use branch                *)
BroadcastUseConst(i) ==
    /\ owners[i].node = "Item"
    /\ owners[i].kind = "Const"
    /\ Has(i, "item_broadcast_use")
    /\ owners[i].attrs \subseteq {"item_broadcast_use", "body_not_block"}
    /\ Len(Mpath(i)) = 1
    /\ Mpath(i)[1] # NoneP

WellFormedBroadcastUse(i) == ~Has(i, "body_not_block") /\ reveal_stmts_ok(i)

(* C8: in every step, a reveals slot that is set keeps its value; and when  *)
(* check_item lowers a module-level broadcast-use constant, the step fails  *)
(* with a hard error if the slot of its module is already set, and          *)
(* otherwise (the constant being a well-formed block of reveal calls) the   *)
(* step succeeds and sets the slot to exactly the functions its reveal      *)
(* calls name.                                                              *)
C8_RevealsSetOncePerModule ==
    [][/\ \A k \in 1..Len(vir.modules) :
            vir.modules[k].reveals.set =>
                /\ k <= Len(vir'.modules)
                /\ vir'.modules[k].reveals = vir.modules[k].reveals
       /\ (pc = "check" /\ BroadcastUseConst(cur)) =>
            LET k == module_index(Mpath(cur)[1])
            IN  IF vir.modules[k].reveals.set
                THEN pc' = "failed" /\ result'.kind = "Err"
                ELSE IF WellFormedBroadcastUse(cur)
                THEN /\ pc' # "failed"
                     /\ vir'.modules[k].reveals =
                            [set |-> TRUE, funs |-> owners[cur].body]
                ELSE pc' = "failed" /\ result'.kind = "Err"]_vars

(* C8 witness: a second broadcast use in a module whose slot holds the      *)
(* functions of the first was rejected                                      *)
C8_Witness ==
    /\ pc = "failed"
    /\ result.msg = "only one module-level broadcast use allowed for each module"
    /\ BroadcastUseConst(cur)
    /\ \E c \in 1..(cur - 1) :
        /\ BroadcastUseConst(c)
        /\ Mpath(c) = Mpath(cur)
        /\ owners[c].body # owners[cur].body
        /\ vir.modules[module_index(Mpath(cur)[1])].reveals =
                [set |-> TRUE, funs |-> owners[c].body]

-----------------------------------------------------------------------------
(* Unsupported items *)

(* the item kinds that the dispatch table of the specification does not list *)
UnlistedKinds ==
    {"GlobalAsm", "OpaqueTyAsyncFn", "OpaqueTy", "TraitAuto", "TraitUnsafe",
     "TraitAlias"}

RejectedKinds == {"OpaqueTy", "TraitAuto", "TraitUnsafe", "TraitAlias"}

(* check_item is called on item i, which is not external *)
CheckedNonExternal(i) ==
    /\ pc = "check"
    /\ owners[i].node = "Item"
    /\ ~skip_item(i)
    /\ ~is_external(i)

-----------------------------------------------------------------------------
(* Declarations under an external container *)

UnderExternalMod(i) == \E a \in StrictAncestors(i) : ExternalMod(a)

(* C11: the step of the third loop on an impl item or a foreign item that   *)
(* is nested in a module marked external does not fail and leaves the krate *)
(* unchanged.                                                               *)
C11_ExternalContentsSilent ==
    [][(pc = "check" /\ owners[cur].node \in {"ImplItem", "ForeignItem"}
            /\ UnderExternalMod(cur)) =>
        (pc' # "failed" /\ vir' = vir)]_vars

-----------------------------------------------------------------------------
(* Hard errors and the order of the phases *)

PreHarvest == {"map", "early", "check"}

HarvestPhases == {"harvest", "enumerate", "import", "group", "reconcile"}

RECURSIVE Descendants(_)
Descendants(i) == Children(i) \cup UNION {Descendants(c) : c \in Children(i)}

(* the krate v has a record named by the path of owner j *)
HasRecordOf(v, j) ==
    \/ \E k \in 1..Len(v.functions) : v.functions[k].name = def_id_to_vir_path(j)
    \/ \E k \in 1..Len(v.datatypes) : v.datatypes[k].path = def_id_to_vir_path(j)
    \/ \E k \in 1..Len(v.traits) : v.traits[k].name = def_id_to_vir_path(j)
    \/ \E k \in 1..Len(v.trait_impls) :
            v.trait_impls[k].impl_path = def_id_to_vir_path(j)
    \/ \E k \in 1..Len(v.assoc_type_impls) :
            v.assoc_type_impls[k].impl_path = def_id_to_vir_path(j)

NoAutoImported(v) ==
    \A k \in 1..Len(v.trait_impls) : ~v.trait_impls[k].auto_imported

(* what holds in every state for a pass that stops at its first hard error *)
AbortedOrClean ==
    /\ pc = "failed" <=> result.kind = "Err"
    /\ pc = "done" <=> result.kind = "Ok"
    /\ pc \notin {"map", "failed"} =>
            \A i \in 1..N : ~(IsItem(i) /\ Has(i, "bad_attrs"))
    /\ pc \notin {"map", "early", "failed"} =>
            \A i \in 1..N : ~(IsItem(i) /\ Has(i, "early_err"))
    /\ pc \in HarvestPhases \cup {"done"} =>
            \A i \in 1..N :
                ~(/\ IsItem(i) /\ owners[i].kind = "StaticMut"
                  /\ owners[i].attrs = {} /\ Mpath(i) # <<NoneP>>)

(* C12: a hard error in any phase ends the pass with that error: the pass   *)
(* takes no step after it has failed or returned, a step that fails in the  *)
(* three loops leaves the harvester unstarted and no declaration after the  *)
(* failing one lowered, and no state past a phase holds a declaration on    *)
(* which that phase fails.                                                  *)
C12_HardErrorAborts ==
    [][/\ pc \notin {"failed", "done"}
       /\ result.kind = "Running"
       /\ AbortedOrClean
       /\ AbortedOrClean'
       /\ (pc' = "failed" /\ pc \in PreHarvest) =>
            /\ hv' = NewHarvest
            /\ NoAutoImported(vir')
            /\ pc = "check" =>
                \A j \in (cur + 1)..N :
                    j \notin Descendants(cur) => ~HasRecordOf(vir', j)]_vars

(* C12 witness: check_item failed on an item that is followed by another   *)
(* item, after the module map was built                                     *)
C12_Witness ==
    /\ pc = "failed"
    /\ result.kind = "Err"
    /\ result.msg \notin {"invalid verifier attribute", "process_const_early"}
    /\ item_to_module # << >>
    /\ hv = NewHarvest
    /\ cur < N
    /\ IsItem(cur)
    /\ IsItem(cur + 1)
    /\ cur + 1 \notin Descendants(cur)

(* the items that check_item handles by their kind *)
Dispatched(i) ==
    /\ IsItem(i)
    /\ Mpath(i) # <<NoneP>>
    /\ ~Has(i, "internal_reveal_fn")
    /\ ~(is_external(i) /\ Has(i, "no_path"))

(* the trait impls that direct lowering produces in a pass without error *)
LoweredTraitImpls ==
    {i \in 1..N :
        /\ Dispatched(i) /\ owners[i].kind = "Impl" /\ ~is_external(i)
        /\ owners[i].trait # 0
        /\ world.traits[owners[i].trait].class \notin {"structural", "eq"}}

LoweredTraits ==
    {IF owners[i].ext # 0 THEN owners[i].ext ELSE i :
        i \in {j \in 1..N : /\ Dispatched(j) /\ owners[j].kind = "Trait"
                            /\ ~is_external(j)}}

BindingItems ==
    {i \in 1..N : /\ Dispatched(i) /\ owners[i].kind = "Fn"
                  /\ Has(i, "external_fn_specification")
                  /\ Len(owners[i].target) = 2}

(* C13: the harvester starts only when check_item has returned for every    *)
(* item: in every harvester state internal_trait_impls, the local trait     *)
(* list and the deferred bindings are those of the whole unit and no step   *)
(* changes them or goes back to the loops; while the loops run the          *)
(* harvester has not started and no record is auto-imported; trait_impls    *)
(* changes only in the third loop, the auto-import loop and reconciliation. *)
C13_HarvesterRunsAfterLocalLowering ==
    [][/\ pc \in HarvestPhases =>
            /\ external_info.internal_trait_impls = LoweredTraitImpls
            /\ Range(external_info.local_trait_ids) = LoweredTraits
            /\ Range(Bindings) = {owners[i].target : i \in BindingItems}
            /\ Len(Bindings) = Cardinality(BindingItems)
            /\ external_info'.internal_trait_impls
                    = external_info.internal_trait_impls
            /\ external_info'.local_trait_ids = external_info.local_trait_ids
            /\ external_info'.external_fn_specification_trait_method_impls
                    = Bindings
            /\ pc' \notin PreHarvest
       /\ pc \in PreHarvest => (hv = NewHarvest /\ NoAutoImported(vir))
       /\ vir'.trait_impls # vir.trait_impls =>
            pc \in {"check", "import", "reconcile"}]_vars

(* C13 witness: the harvester imported an impl after a local impl, a local  *)
(* trait and a binding were lowered by the third loop                       *)
C13_Witness ==
    /\ pc = "done"
    /\ LoweredTraitImpls # {}
    /\ LoweredTraits # {}
    /\ BindingItems # {}
    /\ \E k \in 1..Len(vir.trait_impls) : vir.trait_impls[k].auto_imported
    /\ \E k \in 1..Len(vir.trait_impls) : ~vir.trait_impls[k].auto_imported

-----------------------------------------------------------------------------
(* Order of the visits *)

(* the module map when the first loop visits the owners in the given order *)
RECURSIVE map_in_order(_, _)
map_in_order(order, m) ==
    IF order = << >> THEN m
    ELSE map_in_order(Tail(order), map_owner(Head(order), m))

VisitOrders ==
    {p \in [1..N -> 1..N] : \A j, k \in 1..N : j # k => p[j] # p[k]}

-----------------------------------------------------------------------------
(* Candidates of the auto-import *)

Enumerated == {hv.work[k][2] : k \in 1..Len(hv.work)}

InKrateTraits(v, t) ==
    \E k \in 1..Len(v.traits) : v.traits[k].name = def_id_to_vir_path(t)

(* the trait is declared in the local krate and in no imported krate *)
TraitIsNew(t) ==
    /\ InKrateTraits(vir, t)
    /\ \A j \in 1..Len(world.imported) : ~InKrateTraits(world.imported[j], t)

(* C15: once the enumeration is over, an enumerated impl that is not in     *)
(* internal_trait_impls is in auto_import_impls iff its trait is new in     *)
(* this unit or the impl is of the local crate; nothing else is in the      *)
(* list, and no non-local impl of a trait of an imported krate gets an      *)
(* auto-imported record.                                                    *)
C15_CandidateIffNewTraitOrLocalImpl ==
    pc \in {"import", "group", "reconcile", "done"} =>
        /\ Range(hv.auto_import_impls)
                \subseteq Enumerated \ external_info.internal_trait_impls
        /\ \A impl \in Enumerated \ external_info.internal_trait_impls :
                impl \in Range(hv.auto_import_impls)
                    <=> (TraitIsNew(world.impls[impl].trait) \/ IsLocal(impl))
        /\ \A impl \in Enumerated :
                (~IsLocal(impl) /\ ~TraitIsNew(world.impls[impl].trait)) =>
                    \A k \in ImplRecords(def_id_to_vir_path(impl)) :
                        ~vir.trait_impls[k].auto_imported

(* C15 witness: the trait is declared here and in an imported krate; the    *)
(* local impl is a candidate, the impl of the dependency is not             *)
C15_Witness ==
    /\ pc = "done"
    /\ \E impl \in Enumerated :
        /\ ~IsLocal(impl)
        /\ InKrateTraits(vir, world.impls[impl].trait)
        /\ ~TraitIsNew(world.impls[impl].trait)
        /\ impl \notin Range(hv.auto_import_impls)
    /\ \E impl \in Range(hv.auto_import_impls) :
        IsLocal(impl) /\ ~TraitIsNew(world.impls[impl].trait)

-----------------------------------------------------------------------------
(* The auto-import loop never fails *)

(* the candidate is one that the auto-import loop is to drop *)
Dropped(impl) ==
    \/ ~world.impls[impl].ref
    \/ HasUnknownArg(world.impls[impl].args)
    \/ ~(world.impls[impl].bounds \subseteq external_info.trait_id_set)
    \/ ~world.impls[impl].ok

(* C16: a step of the auto-import loop never fails and always goes on to    *)
(* the next candidate; it leaves the krate unchanged for a candidate        *)
(* without trait reference, with an unknown type argument, with a bound on  *)
(* an unknown trait or whose lowering fails, and appends one auto-imported  *)
(* record for any other; without deferred bindings no harvester step fails. *)
C16_AutoImportNeverFails ==
    [][/\ pc = "import" =>
            /\ pc' # "failed"
            /\ result' = result
            /\ IF cur < Len(hv.auto_import_impls)
               THEN pc' = "import" /\ cur' = cur + 1
               ELSE pc' = "group"
            /\ IF Dropped(hv.auto_import_impls[cur])
               THEN vir' = vir
               ELSE /\ Len(vir'.trait_impls) = Len(vir.trait_impls) + 1
                    /\ vir'.trait_impls[Len(vir'.trait_impls)].auto_imported
                    /\ vir'.trait_impls[Len(vir'.trait_impls)].impl_path
                            = def_id_to_vir_path(hv.auto_import_impls[cur])
       /\ (pc \in HarvestPhases /\ Bindings = << >>) => pc' # "failed"]_vars

(* C16 witness: a candidate whose lowering failed was dropped and a later   *)
(* candidate was imported                                                   *)
C16_Witness ==
    /\ pc = "done"
    /\ result = Ok
    /\ \E j, k \in 1..Len(hv.auto_import_impls) :
        /\ j < k
        /\ ~world.impls[hv.auto_import_impls[j]].ok
        /\ ImplRecords(def_id_to_vir_path(hv.auto_import_impls[j])) = {}
        /\ \E n \in ImplRecords(def_id_to_vir_path(hv.auto_import_impls[k])) :
                vir.trait_impls[n].auto_imported

-----------------------------------------------------------------------------
(* External datatypes *)

(* check_item is called on the struct, enum or union i, marked external *)
ExternalAdt(i) ==
    /\ IsItem(i)
    /\ owners[i].kind \in {"Struct", "Enum", "Union"}
    /\ is_external(i)
    /\ Mpath(i) # <<NoneP>>
    /\ owners[i].attrs \subseteq {"external", "default_external",
                                  "external_type_specification", "no_path"}

RecordsOnlyPath(i) ==
    /\ pc' # "failed"
    /\ vir' = [vir EXCEPT !.external_types = Append(@, def_id_to_vir_path(i))]

(* C17, as claimed: check_item on a struct, enum or union marked external   *)
(* appends its path to external_types and nothing else to the krate, and    *)
(* if the item is also marked external_type_specification it fails and      *)
(* leaves external_types unchanged.                                         *)
C17_ExternalAdtRecordedByPath ==
    [][(pc = "check" /\ ExternalAdt(cur)) =>
        IF Has(cur, "external_type_specification")
        THEN pc' = "failed" /\ vir'.external_types = vir.external_types
        ELSE RecordsOnlyPath(cur)]_vars

(* C17, amended: the above holds for an item whose path can be computed;    *)
(* for an external item without a path check_item returns Ok and leaves the *)
(* krate unchanged, except that an enum or union also marked                *)
(* external_type_specification is still an error.                           *)
C17_ExternalAdtWithPathRecordedByPath ==
    [][(pc = "check" /\ ExternalAdt(cur)) =>
        IF Has(cur, "no_path")
        THEN /\ vir' = vir
             /\ pc' = "failed" <=>
                    (/\ Has(cur, "external_type_specification")
                     /\ owners[cur].kind # "Struct")
        ELSE IF Has(cur, "external_type_specification")
        THEN pc' = "failed" /\ vir' = vir
        ELSE RecordsOnlyPath(cur)]_vars

(* C17 witness: an external enum was recorded by its path only *)
C17_Witness ==
    /\ pc = "harvest"
    /\ ExternalAdt(N)
    /\ owners[N].kind = "Enum"
    /\ ~Has(N, "no_path")
    /\ vir.external_types = <<def_id_to_vir_path(N)>>
    /\ vir.datatypes = << >>
    /\ vir.functions = << >>

-----------------------------------------------------------------------------
(* Impl blocks *)

(* check_item handles the non-external impl block i by its kind *)
CheckedImpl(i) ==
    /\ Dispatched(i)
    /\ owners[i].kind = "Impl"
    /\ ~is_external(i)

TraitClass(i) ==
    IF owners[i].trait = 0 THEN "none" ELSE world.traits[owners[i].trait].class

(* C18: check_item on a non-external unsafe impl block fails and leaves the *)
(* krate, the erasure info and ExternalInfo unchanged; the error is the     *)
(* unsupported-unsafe error for an inherent impl and for an impl of any     *)
(* trait that is not sealed, the marker and equality traits included.       *)
C18_UnsafeImplRejected ==
    [][(pc = "check" /\ CheckedImpl(cur) /\ Has(cur, "unsafe")) =>
        /\ pc' = "failed"
        /\ result'.kind = "Err"
        /\ vir' = vir
        /\ erasure_info' = erasure_info
        /\ external_info' = external_info
        /\ TraitClass(cur) \in {"none", "plain", "structural", "eq"} =>
                result'.msg = "the verifier does not support unsafe here"]_vars

(* C18 witness: an unsafe impl of a marker or equality trait, with a        *)
(* method, was rejected                                                     *)
C18_Witness ==
    /\ pc = "failed"
    /\ CheckedImpl(cur)
    /\ Has(cur, "unsafe")
    /\ TraitClass(cur) \in {"structural", "eq"}
    /\ \E c \in Children(cur) : owners[c].kind = "Fn"
    /\ result.msg = "the verifier does not support unsafe here"
    /\ vir.trait_impls = << >>
    /\ vir.functions = << >>

ExternalItemMsg == "an item in a trait impl cannot be marked external"

HasExternalImplItem(i) ==
    \E c \in Children(i) : owners[c].node = "ImplItem" /\ Has(c, "external")

FirstImplItem(i) ==
    CHOOSE c \in Children(i) : \A d \in Children(i) : c <= d

(* C19, as claimed: check_item on a non-external trait impl block with an   *)
(* impl item marked external fails; on an inherent impl block it does not   *)
(* fail with the error of this check.                                       *)
C19_ExternalImplItemRejected ==
    [][(pc = "check" /\ CheckedImpl(cur) /\ HasExternalImplItem(cur)) =>
        IF owners[cur].trait # 0
        THEN pc' = "failed"
        ELSE result'.msg # ExternalItemMsg]_vars

(* C19, amended: the above holds unless the trait is a structural or        *)
(* equality marker trait, whose impl blocks are ignored before their items  *)
(* are looked at: for these (when not unsafe) check_item returns Ok and     *)
(* leaves the krate unchanged.  The error is the one of this check when the *)
(* marked item is the first item of a safe impl of an ordinary trait.       *)
C19_ExternalImplItemRejectedUnlessIgnored ==
    [][(pc = "check" /\ CheckedImpl(cur) /\ HasExternalImplItem(cur)
            /\ ~Has(cur, "non_structural")) =>
        IF owners[cur].trait = 0
        THEN result'.msg # ExternalItemMsg
        ELSE IF TraitClass(cur) \in {"structural", "eq"} /\ ~Has(cur, "unsafe")
        THEN pc' # "failed" /\ vir' = vir
        ELSE /\ pc' = "failed"
             /\ result'.kind = "Err"
             /\ (/\ TraitClass(cur) = "plain" /\ ~Has(cur, "unsafe")
                 /\ Has(FirstImplItem(cur), "external")
                 /\ world.impls[cur].ok) =>
                    result'.msg = ExternalItemMsg]_vars

(* C19 witness: a trait impl was rejected for its second item, marked       *)
(* external, after its first item was lowered                               *)
C19_Witness ==
    /\ pc = "failed"
    /\ result.msg = ExternalItemMsg
    /\ CheckedImpl(cur)
    /\ TraitClass(cur) = "plain"
    /\ ~Has(FirstImplItem(cur), "external")
    /\ HasExternalImplItem(cur)

(* the krate v has an associated-type record for item c of impl block i *)
HasAssocTypeRecord(v, i, c) ==
    \E k \in 1..Len(v.assoc_type_impls) :
        /\ v.assoc_type_impls[k].impl_path = def_id_to_vir_path(i)
        /\ v.assoc_type_impls[k].name = owners[c].name

AssocTypes(i) ==
    {c \in Children(i) : owners[c].node = "ImplItem" /\ owners[c].kind = "Type"}

(* check_item reaches the items of the trait impl block i *)
ItemsReached(i) ==
    /\ CheckedImpl(i)
    /\ TraitClass(i) = "plain"
    /\ ~Has(i, "unsafe")
    /\ world.impls[i].ok

GenericsMsg == "unsupported generics on associated type"

(* C20, as claimed: check_item on a trait impl block with an associated     *)
(* type that has generic parameters, predicates or a where-clause of its    *)
(* own fails, with the unsupported-generics error when that item is the     *)
(* first of the block, and emits no record for the item.                    *)
C20_GenericAssocTypeRejected ==
    [][(pc = "check" /\ ItemsReached(cur)) =>
        \A c \in AssocTypes(cur) :
            (Has(c, "params") \/ Has(c, "predicates") \/ Has(c, "where_clause")) =>
                /\ pc' = "failed"
                /\ ~HasAssocTypeRecord(vir', cur, c)
                /\ c = FirstImplItem(cur) => result'.msg = GenericsMsg]_vars

(* C20, amended: the above holds for an associated type with predicates or  *)
(* a where-clause of its own; generic parameters alone are accepted, and    *)
(* the record of such an item is emitted.                                   *)
C20_ConstrainedAssocTypeRejected ==
    [][(pc = "check" /\ ItemsReached(cur)) =>
        \A c \in AssocTypes(cur) :
            /\ (Has(c, "predicates") \/ Has(c, "where_clause")) =>
                /\ pc' = "failed"
                /\ ~HasAssocTypeRecord(vir', cur, c)
                /\ c = FirstImplItem(cur) => result'.msg = GenericsMsg
            /\ (owners[c].attrs = {"params"} /\ c = FirstImplItem(cur)) =>
                HasAssocTypeRecord(vir', cur, c)]_vars

(* C20 witness: an associated type with a predicate was rejected after an   *)
(* associated type with only generic parameters was recorded                *)
C20_Witness ==
    /\ pc = "failed"
    /\ result.msg = GenericsMsg
    /\ ItemsReached(cur)
    /\ \E c, d \in AssocTypes(cur) :
        /\ c < d
        /\ owners[c].attrs = {"params"}
        /\ HasAssocTypeRecord(vir, cur, c)
        /\ Has(d, "predicates")
        /\ ~HasAssocTypeRecord(vir, cur, d)

-----------------------------------------------------------------------------
(* Declarations without a canonical path *)

(* the item carries no verifier attribute that check_item looks at before   *)
(* it asks for the path (lines 96-115)                                      *)
OnlyExternalAttrs(i) ==
    owners[i].attrs \subseteq {"no_path", "external", "default_external"}

(* C21: when def_id_to_vir_path_option gives None for an item, the step of  *)
(* check_item on it neither fails nor panics and leaves the krate, the      *)
(* ExternalInfo and the erasure info unchanged, whether the item is marked  *)
(* external or not.                                                         *)
C21_UnresolvableItemSkipped ==
    [][(pc = "check" /\ IsItem(cur) /\ ~skip_item(cur) /\ Has(cur, "no_path")
            /\ OnlyExternalAttrs(cur)) =>
        (/\ pc' \notin {"failed", "panicked"}
         /\ vir' = vir
         /\ external_info' = external_info
         /\ erasure_info' = erasure_info)]_vars

-----------------------------------------------------------------------------
(* The trait-implementation records of the krate *)

TraitImpls == Range(vir.trait_impls)

FromDependency(r) == r.impl_path[1] = DepCrate

(* the record comes from check_item on a local impl block *)
DirectlyLowered(r) ==
    \E i \in external_info.internal_trait_impls : r.impl_path = def_id_to_vir_path(i)

(* C22: a trait-implementation record of an impl of a dependency crate has  *)
(* no owning module, and a record that has one was lowered directly from a  *)
(* local impl block.                                                        *)
C22_DependencyImplHasNoOwningModule ==
    \A r \in TraitImpls :
        /\ (FromDependency(r) /\ r.auto_imported) => r.owning_module = NoneP
        /\ r.owning_module # NoneP => DirectlyLowered(r)

(* C22, as the code has it: every trait-implementation record has an owning *)
(* module; for a record appended by the harvester (auto-imported or         *)
(* reconciled) it is the path of the impl without its last segment.         *)
C22_HarvestedImplOwnedByEnclosingPath ==
    \A r \in TraitImpls :
        /\ r.owning_module # NoneP
        /\ ~DirectlyLowered(r) => r.owning_module = PopSegment(r.impl_path)

(* C22 witness: the harvester has imported an impl of a dependency crate *)
C22_Witness ==
    \E r \in TraitImpls :
        /\ FromDependency(r)
        /\ r.auto_imported
        /\ r.owning_module = <<DepCrate>>

(* the records a step appends to krate.trait_impls *)
IsPrefix(a, b) == Len(a) <= Len(b) /\ SubSeq(b, 1, Len(a)) = a

(* C23: a step never changes a record already in krate.trait_impls, and a   *)
(* record it appends has auto_imported = true exactly when the step is one  *)
(* of the auto-import loop; the records appended by check_item and by       *)
(* reconciliation have auto_imported = false.                               *)
C23_AutoImportedIffFromAutoImportLoop ==
    [][/\ IsPrefix(vir.trait_impls, vir'.trait_impls)
       /\ \A k \in (Len(vir.trait_impls) + 1)..Len(vir'.trait_impls) :
            /\ pc \in {"check", "import", "reconcile"}
            /\ vir'.trait_impls[k].auto_imported = (pc = "import")]_vars

(* C23 witness: the krate holds a record of each of the three origins: one  *)
(* lowered from a local impl block, one auto-imported, one reconciled       *)
C23_Witness ==
    /\ pc = "done"
    /\ \E j, k, l \in 1..Len(vir.trait_impls) :
        /\ j < k /\ k < l
        /\ ~vir.trait_impls[j].auto_imported /\ DirectlyLowered(vir.trait_impls[j])
        /\ vir.trait_impls[k].auto_imported
        /\ ~vir.trait_impls[l].auto_imported

-----------------------------------------------------------------------------
(* Impl blocks of the structural-equality marker traits *)

(* check_item reaches the match arm of a safe, non-external impl block of a *)
(* trait of the given classes                                               *)
MarkerImplChecked(classes) ==
    /\ pc = "check"
    /\ CheckedImpl(cur)
    /\ owners[cur].trait # 0
    /\ TraitClass(cur) \in classes
    /\ ~Has(cur, "unsafe")

(* the oracle reports the self type, with never for its type parameters, as *)
(* not shallowly structural                                                 *)
NonStructuralType(i) == Has(i, "non_structural")

(* C24: check_item on an impl block of the derived-structural marker trait  *)
(* for a type that is not shallowly structural with its type parameters     *)
(* replaced by the never type fails with the error that names the type, and *)
(* leaves the krate and the erasure info unchanged.                         *)
C24_NonStructuralTypeRejected ==
    [][(MarkerImplChecked({"structural"}) /\ NonStructuralType(cur)) =>
        (/\ pc' = "failed"
         /\ result' = ErrArg("structural impl for non-structural type",
                             owners[cur].self_ty)
         /\ vir' = vir
         /\ erasure_info' = erasure_info)]_vars

(* C24 witness: the pass has failed on such a block, which has a method *)
C24_Witness ==
    /\ pc = "failed"
    /\ result.msg = "structural impl for non-structural type"
    /\ result.arg = SelfType
    /\ \E c \in Children(cur) : owners[c].kind = "Fn" /\ Has(c, "has_self")

(* the methods of an impl block: its associated functions with a self       *)
(* receiver, in the order of the block                                      *)
Methods(i) ==
    SelectSeq(impl_items(i),
              LAMBDA c : owners[c].kind = "Fn" /\ Has(c, "has_self"))

(* C25: check_item on a safe, non-external impl block of a structural-      *)
(* equality marker trait (for the derived-structural marker: of a type the  *)
(* oracle accepts) does not fail, appends exactly the methods of the block  *)
(* to erasure_info.ignored_functions, and leaves the krate and ExternalInfo *)
(* unchanged: no function, trait-implementation or associated-type record.  *)
C25_MarkerImplIgnored ==
    [][(/\ MarkerImplChecked({"structural", "eq"})
        /\ TraitClass(cur) = "structural" => ~NonStructuralType(cur)) =>
        (/\ pc' # "failed"
         /\ erasure_info'.ignored_functions =
                erasure_info.ignored_functions \o Methods(cur)
         /\ erasure_info'.external_functions = erasure_info.external_functions
         /\ vir' = vir
         /\ external_info' = external_info)]_vars

(* C25 witness: a marker impl block with a method, an associated function   *)
(* without receiver or an associated type, and only the method recorded     *)
C25_Witness ==
    \E i \in 1..N :
        /\ owners[i].kind = "Impl"
        /\ TraitClass(i) \in {"structural", "eq"}
        /\ pc = "check"
        /\ cur > i
        /\ Len(impl_items(i)) = 2
        /\ erasure_info.ignored_functions = Methods(i)
        /\ Len(Methods(i)) = 1
        /\ vir.functions = << >>
        /\ vir.trait_impls = << >>
        /\ vir.assoc_type_impls = << >>

-----------------------------------------------------------------------------
(* Methods and associated types after the trait reference of their block *)

(* krate.trait_impls has a record for the impl, trait and type arguments    *)
(* that the record x names                                                  *)
HasTraitImpl(x) ==
    \E r \in TraitImpls :
        /\ r.impl_path = x.impl_path
        /\ r.trait_path = x.trait_path
        /\ r.trait_typ_args = x.trait_typ_args

TraitMethodImpls == {f \in Range(vir.functions) : f.kind = "TraitMethodImpl"}

(* the function record was lowered from an item of a local impl block *)
FromImplBlock(f) ==
    \E c \in 1..N : owners[c].node = "ImplItem" /\ f.name = def_id_to_vir_path(c)

-----------------------------------------------------------------------------
(* The memoized known-type check *)

Memo == external_info.type_id_map

InTypePaths(d) == def_id_to_vir_path(d) \in external_info.type_paths

-----------------------------------------------------------------------------
(* Items nested in an item marked external or external_body *)

(* an item that is no module and is marked external or external_body *)
ExternalNonContainer(i) ==
    /\ IsItem(i)
    /\ owners[i].kind # "Mod"
    /\ Has(i, "external") \/ Has(i, "external_body")

(* C28: once the module map is built, every item nested at any depth in a   *)
(* non-module item marked external or external_body is mapped to None, and  *)
(* the item itself is mapped to None only if something that encloses it     *)
(* marks its contents external, so that otherwise the third loop hands the  *)
(* item to check_item.                                                      *)
C28_ExternalItemMarksNestedOnly ==
    PastMapping =>
        \A i \in 1..N : ExternalNonContainer(i) =>
            /\ \A j \in Range(walk_item(i)) : Mpath(j) = <<NoneP>>
            /\ Mpath(i) = <<NoneP>> => \E a \in StrictAncestors(i) : MarksNested(a)

-----------------------------------------------------------------------------
(* Reconciliation of a group whose trait the krate does not declare *)

CurrentGroup == hv.new_trait_impls[cur]

(* the trait of the group's impl has no record in krate.traits *)
TraitNotInKrate(g) ==
    def_id_to_vir_path(world.impls[g.impl_def_id].trait) \notin trait_names(vir)

(* the group fails one of the checks of reconciliation *)
Malformed(g) ==
    \/ has_duplicate(g.funs)
    \/ Cardinality(methods_we_have(g.funs))
            < Cardinality(world.traits[world.impls[g.impl_def_id].trait].methods)
    \/ world.traits[world.impls[g.impl_def_id].trait].assoc > 0

(* C29: the step of reconciliation on a group whose trait has no record in  *)
(* krate.traits neither fails nor changes the krate, whatever the group     *)
(* holds: duplicates, missing methods, a trait with associated types.       *)
C29_UnknownTraitGroupSkipped ==
    [][(pc = "reconcile" /\ TraitNotInKrate(CurrentGroup)) =>
        (/\ pc' # "failed"
         /\ result' = result
         /\ vir' = vir
         /\ external_info' = external_info)]_vars

(* C29 witness: the pass ended with Ok although a malformed group of a      *)
(* trait that only an imported krate declares went through reconciliation   *)
C29_Witness ==
    /\ pc = "done"
    /\ \E k \in 1..Len(hv.new_trait_impls) :
        /\ TraitNotInKrate(hv.new_trait_impls[k])
        /\ Malformed(hv.new_trait_impls[k])
        /\ def_id_to_vir_path(world.impls[hv.new_trait_impls[k].impl_def_id].trait)
                \in old_traits
        /\ ~\E r \in TraitImpls : r.impl_path = hv.new_trait_impls[k].impl_path

-----------------------------------------------------------------------------
(* The built-in marker traits in the known-trait set *)

DeclaredToVerifier(t) ==
    def_id_to_vir_path(t) \in old_traits \cup trait_names(vir)

(* the impl the auto-import loop is at is bounded by built-in marker traits *)
(* only and nothing else stands against it                                  *)
BoundedByMarkerTraits(impl) ==
    /\ world.impls[impl].bounds # {}
    /\ world.impls[impl].bounds \subseteq BuiltinMarkerTraits
    /\ impl_trait_ref(impl)
    /\ trait_impl_to_vir_ok(impl)
    /\ filter_args(world.impls[impl].args, external_info)[1]

(* C30: in every step of the pass the known-trait set holds the six built-in *)
(* marker traits before and after, and loses no member; the harvester       *)
(* enumerates a built-in marker trait only if a krate declares it to the    *)
(* verifier; and the auto-import loop does not drop an impl for a bound on  *)
(* a built-in marker trait.                                                 *)
C30_MarkerTraitsAlwaysKnown ==
    [][/\ BuiltinMarkerTraits \subseteq external_info.trait_id_set
       /\ external_info.trait_id_set \subseteq external_info'.trait_id_set
       /\ \A t \in BuiltinMarkerTraits :
            t \in Range(hv'.all_trait_ids) => DeclaredToVerifier(t)
       /\ (pc = "import" /\ BoundedByMarkerTraits(hv.auto_import_impls[cur])) =>
            Len(vir'.trait_impls) = Len(vir.trait_impls) + 1]_vars

(* C30 witness: the pass is over, Sync is a trait of a dependency crate     *)
(* that no krate declares and the harvester did not enumerate, and an impl  *)
(* bounded by Sync was auto-imported                                        *)
C30_Witness ==
    /\ pc = "done"
    /\ 204 \in Range(world.crate_traits)
    /\ 204 \notin Range(hv.all_trait_ids)
    /\ 204 \in external_info.trait_id_set
    /\ \E r \in TraitImpls :
        /\ r.auto_imported
        /\ r.impl_path = def_id_to_vir_path(111)
        /\ world.impls[111].bounds = {204}

====
